---- MODULE Spec2Model ----
(***************************************************************************)
(* A model of the data validation pipeline of AI_datavalidator.py: the     *)
(* four field validators, the password scorer, DataValidator (record       *)
(* validation, batch processing, statistics) and detect_data_patterns.     *)
(*                                                                         *)
(* Python strings are sequences of one-character strings.  Python values   *)
(* whose type matters to the code that reads them (the 'valid' and         *)
(* 'details' entries of a verdict) carry their type in a "type" field.     *)
(* Scores are counted in hundredths of a point, so that 18.75 is 1875.     *)
(***************************************************************************)
EXTENDS Integers, Sequences, FiniteSets, TLC

(***************************************************************************)
(* Bounds of the model.                                                    *)
(***************************************************************************)
MaxBatch == 3        \* longest batch handed to process_batch
MaxTotal == 5        \* records one DataValidator processes, sample records
MaxRecordRun == 1    \* records one DataValidator processes, all records
MaxCalls == 3        \* calls of process_batch on one DataValidator
MaxTicks == 1        \* days the wall clock advances
MaxChunks == 3       \* pieces a password argument is assembled from
MaxPatternBatch == 3 \* longest batch handed to detect_data_patterns

(***************************************************************************)
(* Strings.                                                                *)
(***************************************************************************)
UpperSeq == <<"A","B","C","D","E","F","G","H","I","J","K","L","M",
              "N","O","P","Q","R","S","T","U","V","W","X","Y","Z">>
LowerSeq == <<"a","b","c","d","e","f","g","h","i","j","k","l","m",
              "n","o","p","q","r","s","t","u","v","w","x","y","z">>
DigitSeq == <<"0","1","2","3","4","5","6","7","8","9">>

SeqRange(s) == {s[i] : i \in DOMAIN s}

UpperChars == SeqRange(UpperSeq)
LowerChars == SeqRange(LowerSeq)
DigitChars == SeqRange(DigitSeq)
AlphaChars == UpperChars \cup LowerChars

\* str.lower() on one character, and on a string
LowerChar(c) ==
    IF c \in UpperChars
    THEN LowerSeq[CHOOSE i \in DOMAIN UpperSeq : UpperSeq[i] = c]
    ELSE c

Lower(s) == [i \in DOMAIN s |-> LowerChar(s[i])]

\* pattern in s
Contains(s, pattern) ==
    \E i \in 0..(Len(s) - Len(pattern)) :
        \A k \in 1..Len(pattern) : s[i + k] = pattern[k]

\* re.search(r'[class]', s)
SearchClass(s, class) == \E i \in DOMAIN s : s[i] \in class

\* sum(s)
RECURSIVE SumSeq(_)
SumSeq(s) == IF s = <<>> THEN 0 ELSE s[1] + SumSeq(Tail(s))

\* the value of a decimal numeral
RECURSIVE DecimalValue(_)
DecimalValue(s) ==
    IF s = <<>> THEN 0
    ELSE 10 * DecimalValue(SubSeq(s, 1, Len(s) - 1))
         + (CHOOSE i \in DOMAIN DigitSeq : DigitSeq[i] = s[Len(s)]) - 1

(***************************************************************************)
(* Python values.                                                          *)
(***************************************************************************)
None == [type |-> "NoneType"]
PyBool(b) == [type |-> "bool", val |-> b]
PyStr(s) == [type |-> "str", val |-> s]
PyTuple(t) == [type |-> "tuple", val |-> t]
PyDict(d) == [type |-> "dict", val |-> d]
PyDatetime(y, m, d) == [type |-> "datetime", year |-> y, month |-> m, day |-> d]

\* bool(v), as all() applies it
Truthy(v) ==
    CASE v.type = "bool" -> v.val
      [] v.type = "NoneType" -> FALSE
      [] v.type = "str" -> Len(v.val) > 0
      [] v.type = "tuple" -> Len(v.val) > 0
      [] v.type = "dict" -> DOMAIN v.val # {}
      [] OTHER -> TRUE

(***************************************************************************)
(* validate_email                                                          *)
(***************************************************************************)
EmailLocalChars == AlphaChars \cup DigitChars \cup {".", "_", "%", "+", "-"}
EmailDomainChars == AlphaChars \cup DigitChars \cup {".", "-"}

\* ^[a-zA-Z0-9._%+-]+@[a-zA-Z0-9.-]+\.[a-zA-Z]{2,} up to the end of s
EmailShape(s) ==
    \E at \in {i \in DOMAIN s : s[i] = "@"} :
        /\ 1 < at
        /\ \A i \in 1..(at - 1) : s[i] \in EmailLocalChars
        /\ \E dot \in {i \in (at + 2)..(Len(s) - 2) : s[i] = "."} :
              /\ \A i \in (at + 1)..(dot - 1) : s[i] \in EmailDomainChars
              /\ \A i \in (dot + 1)..Len(s) : s[i] \in AlphaChars

\* re.match(pattern, email): $ matches at the end of the string and also
\* just before a newline that ends it
EmailPatternMatch(email) ==
    \/ EmailShape(email)
    \/ /\ Len(email) > 0
       /\ email[Len(email)] = "\n"
       /\ EmailShape(SubSeq(email, 1, Len(email) - 1))

suspicious_patterns ==
    << <<"s","p","a","m">>, <<"f","a","k","e">>,
       <<"t","e","s","t">>, <<"t","e","m","p">> >>

validate_email(email) ==
    IF ~EmailPatternMatch(email)
    THEN <<FALSE, "Invalid email format">>
    ELSE IF \E k \in DOMAIN suspicious_patterns :
                Contains(Lower(email), suspicious_patterns[k])
         THEN <<FALSE, "Email appears suspicious">>
         ELSE <<TRUE, "Valid email">>

(***************************************************************************)
(* validate_password                                                       *)
(***************************************************************************)
DefaultMinLength == 8
LengthPoints == 2500        \* 25
CheckPoints == 1875         \* 18.75
PatternPenalty == 3000      \* 30
ExcellentScore == 9000      \* 90
GoodScore == 7000           \* 70
FairScore == 5000           \* 50

SpecialChars == {"!", "@", "#", "$", "%", "^", "&", "*", "(", ")", ",", ".",
                 "?", "\"", ":", "{", "}", "|", "<", ">"}

check_names == <<"uppercase", "lowercase", "digits", "special">>

PasswordChecks(password) ==
    [uppercase |-> SearchClass(password, UpperChars),
     lowercase |-> SearchClass(password, LowerChars),
     digits    |-> SearchClass(password, DigitChars),
     special   |-> SearchClass(password, SpecialChars)]

common_patterns ==
    << <<"1","2","3","4","5","6">>,
       <<"p","a","s","s","w","o","r","d">>,
       <<"q","w","e","r","t","y">>,
       <<"a","d","m","i","n">> >>

\* a plausible bug: the patterns are looked for in the password as typed
HasCommonPatternCaseSensitive(password) ==
    \E k \in DOMAIN common_patterns : Contains(password, common_patterns[k])

HasCommonPattern(password) ==
    \E k \in DOMAIN common_patterns :
        Contains(Lower(password), common_patterns[k])

\* the loop over checks.items(): acc is <<score, feedback>> before check k
RECURSIVE ChecksLoop(_, _, _)
ChecksLoop(checks, k, acc) ==
    IF k > Len(check_names) THEN acc
    ELSE ChecksLoop(checks, k + 1,
            IF checks[check_names[k]]
            THEN <<acc[1] + CheckPoints, acc[2]>>
            ELSE <<acc[1], Append(acc[2], <<"Add at least one", check_names[k], "character">>)>>)

Rating(score) ==
    IF score >= ExcellentScore THEN "Excellent"
    ELSE IF score >= GoodScore THEN "Good"
    ELSE IF score >= FairScore THEN "Fair"
    ELSE "Weak"

RECURSIVE CountTrue(_, _)
CountTrue(checks, k) ==
    IF k = 0 THEN 0
    ELSE CountTrue(checks, k - 1) + (IF checks[check_names[k]] THEN 1 ELSE 0)

validate_password(password, min_length) ==
    LET afterLength ==
            IF Len(password) >= min_length
            THEN <<LengthPoints, <<>> >>
            ELSE <<0, << <<"Password should be at least", ToString(min_length), "characters">> >> >>
        checks == PasswordChecks(password)
        afterChecks == ChecksLoop(checks, 1, afterLength)
        afterPatterns ==
            IF HasCommonPattern(password)
            THEN <<afterChecks[1] - PatternPenalty,
                   Append(afterChecks[2], <<"Avoid common password patterns">>)>>
            ELSE afterChecks
    IN  [score |-> afterPatterns[1],
         rating |-> Rating(afterPatterns[1]),
         feedback |-> afterPatterns[2],
         checks_passed |-> CountTrue(checks, Len(check_names)),
         total_checks |-> Len(check_names)]

(***************************************************************************)
(* validate_date                                                           *)
(***************************************************************************)
IsLeap(y) == (y % 4 = 0 /\ y % 100 # 0) \/ y % 400 = 0

DaysInMonth(y, m) ==
    IF m = 2 THEN (IF IsLeap(y) THEN 29 ELSE 28)
    ELSE IF m \in {4, 6, 9, 11} THEN 30 ELSE 31

AllDigits(s) == \A i \in DOMAIN s : s[i] \in DigitChars

\* %m: 1[0-2]|0[1-9]|[1-9]
MonthToken(s) ==
    /\ Len(s) \in {1, 2}
    /\ AllDigits(s)
    /\ DecimalValue(s) \in 1..12

\* %d: 3[0-1]|[1-2]\d|0[1-9]|[1-9]| [1-9]
DayToken(s) ==
    \/ /\ Len(s) \in {1, 2}
       /\ AllDigits(s)
       /\ DecimalValue(s) \in 1..31
    \/ /\ Len(s) = 2
       /\ s[1] = " "
       /\ s[2] \in DigitChars \ {"0"}

DayValue(s) == IF s[1] = " " THEN DecimalValue(<<s[2]>>) ELSE DecimalValue(s)

\* datetime.strptime(date_str, "%Y-%m-%d"): the set of parses, empty when
\* strptime raises ValueError and a single datetime otherwise
Strptime(date_str) ==
    {PyDatetime(DecimalValue(SubSeq(date_str, 1, 4)),
                DecimalValue(SubSeq(date_str, 6, dash - 1)),
                DayValue(SubSeq(date_str, dash + 1, Len(date_str)))) :
        dash \in {i \in 7..(Len(date_str) - 1) :
            /\ AllDigits(SubSeq(date_str, 1, 4))
            /\ date_str[5] = "-"
            /\ date_str[i] = "-"
            /\ MonthToken(SubSeq(date_str, 6, i - 1))
            /\ DayToken(SubSeq(date_str, i + 1, Len(date_str)))
            /\ DecimalValue(SubSeq(date_str, 1, 4)) >= 1
            /\ DayValue(SubSeq(date_str, i + 1, Len(date_str)))
                  <= DaysInMonth(DecimalValue(SubSeq(date_str, 1, 4)),
                                 DecimalValue(SubSeq(date_str, 6, i - 1)))}}

\* parsed_date > datetime.now(): parsed_date is a midnight, so it is later
\* than the current moment exactly when its day is after the current day
LaterThan(parsed, today) ==
    \/ parsed.year > today.year
    \/ parsed.year = today.year /\ parsed.month > today.month
    \/ parsed.year = today.year /\ parsed.month = today.month /\ parsed.day > today.day

validate_date(date_str, today) ==
    LET parses == Strptime(date_str)
    IN  IF parses = {} THEN <<FALSE, None>>
        ELSE LET parsed_date == CHOOSE p \in parses : TRUE
             IN  IF LaterThan(parsed_date, today) THEN <<FALSE, None>>
                 ELSE <<TRUE, parsed_date>>

(***************************************************************************)
(* validate_phone                                                          *)
(***************************************************************************)
MinPhoneDigits == 10
MaxPhoneDigits == 15

\* re.sub(r'\D', '', phone)
StripNonDigits(phone) == SelectSeq(phone, LAMBDA c : c \in DigitChars)

validate_phone(phone) ==
    LET digits == StripNonDigits(phone)
    IN  MinPhoneDigits <= Len(digits) /\ Len(digits) <= MaxPhoneDigits

(***************************************************************************)
(* Inputs.                                                                 *)
(***************************************************************************)
known_fields == {"email", "password", "date", "phone"}
Fields == known_fields \cup {"username"}

Email_user1 == <<"u","s","e","r","1","@","e","x","a","m","p","l","e",".","c","o","m">>
Email_invalid == <<"i","n","v","a","l","i","d","-","e","m","a","i","l">>
Email_spam == <<"s","p","a","m","@","f","a","k","e",".","c","o","m">>
Password_Pass123 == <<"P","a","s","s","1","2","3","!">>
Password_weak == <<"w","e","a","k">>
Password_StrongPass == <<"S","t","r","o","n","g","P","a","s","s","!","2","0","2","3">>
Password_Password1 == <<"P","a","s","s","w","o","r","d","1","!">>
Password_aA1 == <<"a","A","1">>
Date_2023_01_15 == <<"2","0","2","3","-","0","1","-","1","5">>
Date_2025_01_01 == <<"2","0","2","5","-","0","1","-","0","1">>
Date_2022_12_31 == <<"2","0","2","2","-","1","2","-","3","1">>
Date_2023_02_30 == <<"2","0","2","3","-","0","2","-","3","0">>
Phone_10 == <<"1","2","3","-","4","5","6","-","7","8","9","0">>
Phone_3 == <<"1","2","3">>
Phone_11 == <<"+","1","-","2","3","4","-","5","6","7","-","8","9","0","0">>
Username_bob == <<"b","o","b">>

FieldValues ==
    [email |-> {Email_user1, Email_invalid, Email_spam},
     password |-> {Password_Pass123, Password_weak, Password_Password1, Password_aA1},
     date |-> {Date_2023_01_15, Date_2025_01_01, Date_2023_02_30},
     phone |-> {Phone_10, Phone_3},
     username |-> {Username_bob}]

\* a record is a dict from field names to strings
RecordsOver(S) ==
    {r \in [S -> UNION {FieldValues[f] : f \in S}] : \A f \in S : r[f] \in FieldValues[f]}

Records == UNION {RecordsOver(S) : S \in SUBSET Fields}

\* the rows load_csv_data falls back to, and a few short records
SampleRecords ==
    { [email |-> Email_user1, password |-> Password_Pass123,
       date |-> Date_2023_01_15, phone |-> Phone_10],
      [email |-> Email_invalid, password |-> Password_weak,
       date |-> Date_2025_01_01, phone |-> Phone_3],
      [email |-> Email_spam, password |-> Password_StrongPass,
       date |-> Date_2022_12_31, phone |-> Phone_11],
      [email |-> Email_user1],
      [email |-> Email_spam],
      [date |-> Date_2025_01_01],
      [username |-> Username_bob],
      <<>> }

\* password arguments: up to MaxChunks of these pieces, one after another
PasswordChunks ==
    { <<"a","d","m","i","n">>,
      <<"P","A","S","S","W","O","R","D">>,
      <<"1","2","3","4","5","6">>,
      <<"Z","z","9","!">>,
      <<"a","b","c","d">>,
      <<"1","2">>,
      <<"!">> }

RECURSIVE ChunkStrings(_)
ChunkStrings(n) ==
    IF n = 0 THEN {<<>>}
    ELSE ChunkStrings(n - 1)
         \cup {s \o c : s \in ChunkStrings(n - 1), c \in PasswordChunks}

Passwords == ChunkStrings(MaxChunks)
MinLengths == {DefaultMinLength, 6}

\* the batches detect_data_patterns is called with
Email_other == <<"b","o","b","@","e","x","a","m","p","l","e",".","c","o","m">>
Email_two_ats == <<"a","@","b","@","c",".","i","o">>
Password_abc == <<"a","b","c">>
Password_de == <<"d","e">>

PatternRecords ==
    {r \in UNION {[S -> {Email_user1, Email_other, Email_invalid, Email_two_ats,
                         Password_abc, Password_de}] : S \in SUBSET {"email", "password"}} :
        /\ "email" \in DOMAIN r =>
              r.email \in {Email_user1, Email_other, Email_invalid, Email_two_ats}
        /\ "password" \in DOMAIN r => r.password \in {Password_abc, Password_de}}

PatternBatches == UNION {[1..n -> PatternRecords] : n \in 0..MaxPatternBatch}

\* the day the program starts on, and the days after it
NextDay(t) ==
    IF t.day < DaysInMonth(t.year, t.month) THEN PyDatetime(t.year, t.month, t.day + 1)
    ELSE IF t.month < 12 THEN PyDatetime(t.year, t.month + 1, 1)
    ELSE PyDatetime(t.year + 1, 1, 1)

RECURSIVE DayAfter(_, _)
DayAfter(t, n) == IF n = 0 THEN t ELSE DayAfter(NextDay(t), n - 1)

StartDay == PyDatetime(2024, 12, 31)
LastDay == DayAfter(StartDay, MaxTicks)

(***************************************************************************)
(* State.                                                                  *)
(***************************************************************************)
VARIABLES
    stats,      \* DataValidator: self.stats
    pc,         \* "idle", or "batch" inside process_batch
    remaining,  \* records of data the loop of process_batch has yet to reach
    record,     \* the record of the current iteration
    validated,  \* validated_record of the current iteration
    batch_sizes, \* the lengths of the batches process_batch was called with
    today,      \* the day of datetime.now()
    pwArgs,     \* validate_password: the arguments of the last call
    pwReport,   \* validate_password: what the last call returned
    patData,    \* detect_data_patterns: the argument of the last call
    patterns    \* detect_data_patterns: what the last call returned

dvVars == <<stats, pc, remaining, record, validated, batch_sizes, today>>
pwVars == <<pwArgs, pwReport>>
patVars == <<patData, patterns>>
vars == <<stats, pc, remaining, record, validated, batch_sizes, today,
          pwArgs, pwReport, patData, patterns>>

NoCall == [type |-> "NoneType"]

PwInit == pwArgs = NoCall /\ pwReport = NoCall
PatInit == patData = NoCall /\ patterns = NoCall

(***************************************************************************)
(* DataValidator                                                           *)
(***************************************************************************)
\* a plausible bug: a password counts as valid from "Good" on
ValidateFieldGoodOnly(field, value, now) ==
    IF field = "password"
    THEN LET result == validate_password(value, DefaultMinLength)
         IN  [valid |-> PyBool(result.score >= GoodScore),
              details |-> PyDict(result)]
    ELSE IF field = "email"
    THEN LET r == validate_email(value)
         IN  [valid |-> PyBool(r[1]), details |-> PyStr(r[2])]
    ELSE IF field = "date"
    THEN [valid |-> PyTuple(validate_date(value, now)), details |-> None]
    ELSE [valid |-> PyBool(validate_phone(value)), details |-> None]

\* a plausible bug: the message of validate_email is dropped
ValidateFieldNoMessage(field, value, now) ==
    IF field = "password"
    THEN LET result == validate_password(value, DefaultMinLength)
         IN  [valid |-> PyBool(result.score >= FairScore),
              details |-> PyDict(result)]
    ELSE IF field = "email"
    THEN LET r == validate_email(value)
         IN  [valid |-> PyBool(r[1]), details |-> None]
    ELSE IF field = "date"
    THEN [valid |-> PyTuple(validate_date(value, now)), details |-> None]
    ELSE [valid |-> PyBool(validate_phone(value)), details |-> None]

\* _validate_record: the verdict of one known field
ValidateField(field, value, now) ==
    IF field = "password"
    THEN LET result == validate_password(value, DefaultMinLength)
         IN  [valid |-> PyBool(result.score >= FairScore),
              details |-> PyDict(result)]
    ELSE IF field = "email"
    THEN LET r == validate_email(value)
         IN  [valid |-> PyBool(r[1]), details |-> PyStr(r[2])]
    ELSE IF field = "date"
    THEN [valid |-> PyTuple(validate_date(value, now)), details |-> None]
    ELSE [valid |-> PyBool(validate_phone(value)), details |-> None]

\* a plausible bug: a field without a validator gets an invalid verdict
ValidatedFieldsAll(rec) == DOMAIN rec

\* the fields of a record that _validate_record gives a verdict
ValidatedFields(rec) == DOMAIN rec \cap known_fields

validate_record(rec, now) ==
    [field \in ValidatedFields(rec) |-> ValidateField(field, rec[field], now)]

\* all(r['valid'] for r in validated_record.values())
AllValid(validated_record) ==
    \A f \in DOMAIN validated_record : Truthy(validated_record[f].valid)

\* a plausible bug: a failed record is counted in total only
UpdateStatsNoFailed(s, validated_record) ==
    IF AllValid(validated_record)
    THEN [s EXCEPT !.total = @ + 1, !.passed = @ + 1]
    ELSE [s EXCEPT !.total = @ + 1]

\* the statistics update of one iteration
UpdateStats(s, validated_record) ==
    IF AllValid(validated_record)
    THEN [s EXCEPT !.total = @ + 1, !.passed = @ + 1]
    ELSE [s EXCEPT !.total = @ + 1, !.failed = @ + 1]

\* (passed / total) * 100, as a fraction
PassRate(passed, total) == [num |-> passed * 100, den |-> total]

InitStats == [total |-> 0, passed |-> 0, failed |-> 0]

DvInit ==
    /\ stats = InitStats
    /\ pc = "idle"
    /\ remaining = 0
    /\ record = NoCall
    /\ validated = NoCall
    /\ batch_sizes = <<>>
    /\ today = StartDay

\* process_batch(data) is called with a batch of n records, on a
\* DataValidator that is handed at most limit records
\* a plausible bug: process_batch starts every batch from fresh statistics
ProcessBatchResetting(n, limit) ==
    /\ pc = "idle"
    /\ Len(batch_sizes) < MaxCalls
    /\ SumSeq(batch_sizes) + n <= limit
    /\ pc' = "batch"
    /\ remaining' = n
    /\ batch_sizes' = Append(batch_sizes, n)
    /\ stats' = InitStats
    /\ UNCHANGED <<record, validated, today, pwVars, patVars>>

ProcessBatch(n, limit) ==
    /\ pc = "idle"
    /\ Len(batch_sizes) < MaxCalls
    /\ SumSeq(batch_sizes) + n <= limit
    /\ pc' = "batch"
    /\ remaining' = n
    /\ batch_sizes' = Append(batch_sizes, n)
    /\ UNCHANGED <<stats, record, validated, today, pwVars, patVars>>

\* one iteration of the loop of process_batch, on the next record of data
ProcessRecord(r) ==
    /\ pc = "batch"
    /\ remaining > 0
    /\ record' = r
    /\ validated' = validate_record(r, today)
    /\ stats' = UpdateStats(stats, validated')
    /\ remaining' = remaining - 1
    /\ UNCHANGED <<pc, batch_sizes, today, pwVars, patVars>>

\* process_batch returns, and its locals are gone
ProcessBatchReturn ==
    /\ pc = "batch"
    /\ remaining = 0
    /\ pc' = "idle"
    /\ record' = NoCall
    /\ validated' = NoCall
    /\ UNCHANGED <<stats, remaining, batch_sizes, today, pwVars, patVars>>

GetStatisticsResult(s) ==
    IF s.total = 0 THEN s
    ELSE [k \in DOMAIN s \cup {"pass_rate"} |->
            IF k = "pass_rate" THEN PassRate(s.passed, s.total) ELSE s[k]]

\* get_statistics returns self.stats itself, so stats is also what the
\* caller holds
get_statistics ==
    /\ pc = "idle"
    /\ stats' = GetStatisticsResult(stats)
    /\ UNCHANGED <<pc, remaining, record, validated, batch_sizes, today, pwVars, patVars>>

\* the wall clock reaches the next day
Tick ==
    /\ today # LastDay
    /\ today' = NextDay(today)
    /\ UNCHANGED <<stats, pc, remaining, record, validated, batch_sizes, pwVars, patVars>>

Init == DvInit /\ PwInit /\ PatInit

\* one DataValidator fed batches of the sample records
Next ==
    \/ \E n \in 0..MaxBatch : ProcessBatch(n, MaxTotal)
    \/ \E r \in SampleRecords : ProcessRecord(r)
    \/ ProcessBatchReturn
    \/ get_statistics
    \/ Tick

Spec == Init /\ [][Next]_vars

\* one DataValidator fed a few records in non-empty batches, each record
\* any of Records
NextRecords ==
    \/ \E n \in 1..MaxBatch : ProcessBatch(n, MaxRecordRun)
    \/ \E r \in Records : ProcessRecord(r)
    \/ ProcessBatchReturn
    \/ get_statistics
    \/ Tick

SpecRecords == Init /\ [][NextRecords]_vars

(***************************************************************************)
(* validate_password, called on its own                                    *)
(***************************************************************************)
InitPassword ==
    /\ DvInit
    /\ PatInit
    /\ pwArgs \in [password : Passwords, min_length : MinLengths]
    /\ pwReport = NoCall

ValidatePassword ==
    /\ pwReport = NoCall
    /\ pwReport' = validate_password(pwArgs.password, pwArgs.min_length)
    /\ UNCHANGED <<pwArgs, dvVars, patVars>>

NextPassword == ValidatePassword

SpecPassword == InitPassword /\ [][NextPassword]_vars

(***************************************************************************)
(* detect_data_patterns                                                    *)
(***************************************************************************)
\* s.split(sep)
RECURSIVE Split(_, _)
Split(s, sep) ==
    IF \A i \in DOMAIN s : s[i] # sep THEN <<s>>
    ELSE LET i == CHOOSE j \in DOMAIN s :
                      s[j] = sep /\ \A k \in 1..(j - 1) : s[k] # sep
         IN  <<SubSeq(s, 1, i - 1)>> \o Split(SubSeq(s, i + 1, Len(s)), sep)

\* d[key] = d.get(key, 0) + 1
CountUp(d, key) ==
    [x \in DOMAIN d \cup {key} |->
        IF x = key THEN (IF key \in DOMAIN d THEN d[key] ELSE 0) + 1 ELSE d[x]]

\* a plausible bug: the part before the first '@' is counted
PatternStepLocalPart(pat, rec) ==
    LET withEmail ==
            IF "email" \in DOMAIN rec /\ \E i \in DOMAIN rec.email : rec.email[i] = "@"
            THEN [pat EXCEPT !.email_domains = CountUp(@, Split(rec.email, "@")[1])]
            ELSE pat
    IN  IF "password" \in DOMAIN rec
        THEN [withEmail EXCEPT !.password_lengths = Append(@, Len(rec.password))]
        ELSE withEmail

\* the body of the loop over data
PatternStep(pat, rec) ==
    LET withEmail ==
            IF "email" \in DOMAIN rec /\ \E i \in DOMAIN rec.email : rec.email[i] = "@"
            THEN [pat EXCEPT !.email_domains = CountUp(@, Split(rec.email, "@")[2])]
            ELSE pat
    IN  IF "password" \in DOMAIN rec
        THEN [withEmail EXCEPT !.password_lengths = Append(@, Len(rec.password))]
        ELSE withEmail

RECURSIVE PatternLoop(_, _, _)
PatternLoop(data, k, pat) ==
    IF k > Len(data) THEN pat
    ELSE PatternLoop(data, k + 1, PatternStep(pat, data[k]))

MinSeq(s) == CHOOSE x \in SeqRange(s) : \A y \in SeqRange(s) : x <= y
MaxSeq(s) == CHOOSE x \in SeqRange(s) : \A y \in SeqRange(s) : x >= y

detect_data_patterns(data) ==
    IF data = <<>> THEN <<>>
    ELSE LET pat == PatternLoop(data, 1,
                        [email_domains |-> <<>>,
                         password_lengths |-> <<>>,
                         date_range |-> [min |-> None, max |-> None]])
             lengths == pat.password_lengths
         IN  IF lengths # <<>>
             THEN [k \in DOMAIN pat \cup {"password_stats"} |->
                     IF k = "password_stats"
                     THEN [avg_length |-> [num |-> SumSeq(lengths), den |-> Len(lengths)],
                           min_length |-> MinSeq(lengths),
                           max_length |-> MaxSeq(lengths)]
                     ELSE pat[k]]
             ELSE pat

InitPatterns ==
    /\ DvInit
    /\ PwInit
    /\ patData \in PatternBatches
    /\ patterns = NoCall

DetectDataPatterns ==
    /\ patterns = NoCall
    /\ patterns' = detect_data_patterns(patData)
    /\ UNCHANGED <<patData, dvVars, pwVars>>

NextPatterns == DetectDataPatterns

SpecPatterns == InitPatterns /\ [][NextPatterns]_vars

(***************************************************************************)
(* Properties.                                                             *)
(***************************************************************************)
\* a step that is one iteration of the loop of process_batch
RecordStep == pc = "batch" /\ remaining' = remaining - 1

\* a state right after an iteration of the loop of process_batch
AfterRecord == pc = "batch" /\ record # NoCall

\* What a verdict says: its 'valid' entry when that is a boolean, and, when
\* it is the pair validate_date returns, the boolean of the pair.
SaysValid(verdict) ==
    CASE verdict.valid.type = "bool" -> verdict.valid.val
      [] verdict.valid.type = "tuple" -> verdict.valid.val[1]
      [] OTHER -> FALSE

\* C1: every record process_batch iterates over is counted in passed if and
\* only if every field verdict produced for it is valid, and in failed
\* otherwise; a record with no recognised field is counted in passed.
C1_PassedIffAllValid ==
    [][RecordStep =>
          LET allValid == \A f \in DOMAIN validated' : SaysValid(validated'[f])
          IN  /\ allValid =>
                   stats'.passed = stats.passed + 1 /\ stats'.failed = stats.failed
              /\ ~allValid =>
                   stats'.failed = stats.failed + 1 /\ stats'.passed = stats.passed]_vars

\* C2: the verdict of a 'date' field has valid equal to the boolean
\* validate_date returns (the string parses and is not later than now) and
\* detail equal to the parsed date or null.
C2_DateVerdict ==
    [][(RecordStep /\ "date" \in DOMAIN record') =>
          LET r == validate_date(record'.date, today)
          IN  /\ validated'.date.valid = PyBool(r[1])
              /\ validated'.date.details = r[2]]_vars

\* C3: statistics accumulate over the calls of process_batch on one
\* DataValidator: between calls total is the sum of the lengths of all the
\* batches handed in so far, and no step lowers total, passed or failed.
C3_StatsAccumulate ==
    /\ [](pc = "idle" => stats.total = SumSeq(batch_sizes))
    /\ [][/\ stats'.total >= stats.total
          /\ stats'.passed >= stats.passed
          /\ stats'.failed >= stats.failed]_vars

C3_Witness ==
    /\ pc = "idle"
    /\ batch_sizes = <<3, 2>>
    /\ stats.total = 5

\* the character classes of the four checks
CheckClasses == {UpperChars, LowerChars, DigitChars, SpecialChars}

ClassesPresent(password) ==
    Cardinality({class \in CheckClasses : SeqRange(password) \cap class # {}})

ContainsCommon(password) ==
    \E k \in DOMAIN common_patterns : Contains(Lower(password), common_patterns[k])

\* the passwords a scored password is compared with
ComparisonPasswords == ChunkStrings(2)

\* C4: the score validate_password returns is 25 for a password of at least
\* min_length characters, plus 18.75 for each of the four character classes
\* present, minus 30 when the lowercased password contains a common pattern,
\* unclamped; checks_passed is the number of classes present; and a password
\* with a common pattern scores 30 less than any password without one that
\* agrees with it on the length check and on the four class checks.
C4_ScoreFormula ==
    pwReport # NoCall =>
        LET p == pwArgs.password
            m == pwArgs.min_length
        IN  /\ pwReport.checks_passed = ClassesPresent(p)
            /\ pwReport.score =
                  (IF Len(p) >= m THEN 2500 ELSE 0)
                  + 1875 * pwReport.checks_passed
                  - (IF ContainsCommon(p) THEN 3000 ELSE 0)
            /\ ContainsCommon(p) =>
                  \A q \in ComparisonPasswords :
                      (/\ ~ContainsCommon(q)
                       /\ (Len(q) >= m) = (Len(p) >= m)
                       /\ PasswordChecks(q) = PasswordChecks(p))
                      => pwReport.score = validate_password(q, m).score - 3000

C4_Witness ==
    /\ pwReport # NoCall
    /\ ContainsCommon(pwArgs.password)
    /\ pwReport.score < 0
    /\ pwReport.checks_passed = 1

\* C5: the verdict of a 'password' field is valid exactly when the score of
\* its ScoreReport is at least 50, which is exactly when the rating is Fair,
\* Good or Excellent (Excellent from 90, Good from 70, Fair from 50, Weak
\* below), and its detail is the ScoreReport of the password.
C5_PasswordVerdict ==
    (AfterRecord /\ "password" \in DOMAIN record) =>
        LET verdict == validated.password
            report == verdict.details.val
        IN  /\ verdict.details = PyDict(validate_password(record.password, 8))
            /\ verdict.valid = PyBool(report.score >= 5000)
            /\ (report.score >= 5000) = (report.rating \in {"Fair", "Good", "Excellent"})
            /\ (report.rating = "Excellent") = (report.score >= 9000)
            /\ (report.rating = "Good") = (report.score >= 7000 /\ report.score < 9000)
            /\ (report.rating = "Fair") = (report.score >= 5000 /\ report.score < 7000)
            /\ (report.rating = "Weak") = (report.score < 5000)

C5_Witness ==
    /\ AfterRecord
    /\ "password" \in DOMAIN record
    /\ validated.password.details.val.rating = "Fair"
    /\ validated.password.valid = PyBool(TRUE)

\* C6: the verdict map of a record has as keys exactly the record's fields
\* among email, password, date and phone; the verdicts are those of the
\* record without its other fields, and the record is counted by them.
C6_KnownFieldsOnly ==
    [][RecordStep =>
          LET known == DOMAIN record' \cap {"email", "password", "date", "phone"}
              stripped == [f \in known |-> record'[f]]
          IN  /\ DOMAIN validated' = known
              /\ validated' = validate_record(stripped, today)
              /\ stats' = UpdateStats(stats, validated')]_vars

C6_Witness ==
    /\ AfterRecord
    /\ DOMAIN record = {"email", "username"}
    /\ DOMAIN validated = {"email"}
    /\ stats.failed = 1

HasAt(rec) == "email" \in DOMAIN rec /\ "@" \in SeqRange(rec.email)

FirstAt(s) == CHOOSE i \in DOMAIN s : s[i] = "@" /\ \A k \in 1..(i - 1) : s[k] # "@"

\* the substring after the first '@'
AfterFirstAt(s) == SubSeq(s, FirstAt(s) + 1, Len(s))

\* the substring from the first '@' to the next '@', or to the end
UpToNextAt(s) ==
    LET rest == AfterFirstAt(s)
    IN  IF "@" \in SeqRange(rest) THEN SubSeq(rest, 1, FirstAt(rest) - 1) ELSE rest

\* C8, as claimed: for a non-empty batch, email_domains maps the substring
\* after the first '@' of each email that contains '@' to the number of
\* records yielding it.
C8_DomainAfterFirstAt ==
    (patterns # NoCall /\ patData # <<>>) =>
        LET yielding(d) == {i \in DOMAIN patData :
                               HasAt(patData[i]) /\ AfterFirstAt(patData[i].email) = d}
        IN  /\ DOMAIN patterns.email_domains =
                  {AfterFirstAt(patData[i].email) : i \in {j \in DOMAIN patData : HasAt(patData[j])}}
            /\ \A d \in DOMAIN patterns.email_domains :
                  patterns.email_domains[d] = Cardinality(yielding(d))

\* C8, amended: for a non-empty batch, email_domains maps the substring
\* between the first '@' and the next '@' (or the end) of each email that
\* contains '@' to the number of records yielding it.
C8_DomainUpToNextAt ==
    (patterns # NoCall /\ patData # <<>>) =>
        LET yielding(d) == {i \in DOMAIN patData :
                               HasAt(patData[i]) /\ UpToNextAt(patData[i].email) = d}
        IN  /\ DOMAIN patterns.email_domains =
                  {UpToNextAt(patData[i].email) : i \in {j \in DOMAIN patData : HasAt(patData[j])}}
            /\ \A d \in DOMAIN patterns.email_domains :
                  patterns.email_domains[d] = Cardinality(yielding(d))

C8_Witness ==
    /\ patterns # NoCall
    /\ Len(patData) = 3
    /\ \E i \in DOMAIN patData : HasAt(patData[i]) /\ patData[i].email = Email_two_ats
    /\ \E d \in DOMAIN patterns.email_domains : patterns.email_domains[d] = 2
    /\ Cardinality(DOMAIN patterns.email_domains) = 2

\* C9: between the calls on one DataValidator, its statistics carry a
\* pass_rate only if total > 0, and a pass_rate they carry equals
\* passed / total * 100 for the current passed and total.
C9_PassRateCurrent ==
    (pc = "idle" /\ "pass_rate" \in DOMAIN stats) =>
        /\ stats.total > 0
        /\ stats.pass_rate.num * stats.total = stats.passed * 100 * stats.pass_rate.den

\* C10: total = passed + failed in every state; an iteration of
\* process_batch raises total by one and exactly one of passed and failed
\* by one; every other step, get_statistics among them, changes none of
\* the three.
C10_TotalIsPassedPlusFailed ==
    /\ [](stats.total = stats.passed + stats.failed)
    /\ [][IF RecordStep
          THEN /\ stats'.total = stats.total + 1
               /\ \/ stats'.passed = stats.passed + 1 /\ stats'.failed = stats.failed
                  \/ stats'.passed = stats.passed /\ stats'.failed = stats.failed + 1
          ELSE /\ stats'.total = stats.total
               /\ stats'.passed = stats.passed
               /\ stats'.failed = stats.failed]_vars

C10_Witness ==
    /\ pc = "idle"
    /\ "pass_rate" \in DOMAIN stats
    /\ stats.total = 5
    /\ stats.passed = 2
    /\ stats.failed = 3

====
